---------------------------- MODULE Spec2Model ----------------------------
(***************************************************************************)
(* A model of the multi-agent proposal pipeline of src/streamlit_app.py:   *)
(* the search wrapper, the four agents, the JSON salvage each agent runs   *)
(* on the generator's text, and the orchestrator that sequences them.      *)
(*                                                                         *)
(* Python values are tagged records [t, v]; a str is a sequence of         *)
(* one-character strings, so that strip, startswith, find, rfind, the      *)
(* substring test and json.loads are computed character by character.      *)
(* The alphabet of the texts has no backslash, no '.', and none of the     *)
(* non-standard literals NaN / Infinity, so string escapes and decimal     *)
(* fractions are outside the model.  A float is the mantissa and decimal    *)
(* exponent of its literal, within the range where a double tells two      *)
(* different decimals apart (no overflow to inf, no underflow to 0).       *)
(*                                                                         *)
(* A step of the source that uses an intermediate result several times is  *)
(* written as an operator that receives the result as a parameter.         *)
(***************************************************************************)
EXTENDS Integers, Sequences, FiniteSets, TLC

(***************************************************************************)
(* Characters that cannot be written inside a TLA+ string literal.         *)
(***************************************************************************)
QUOTE == "\""
BACKTICK == "BT"
NL == "\n"
FF == "\f"

(***************************************************************************)
(* A character without a TLA+ escape is the token of its code point.       *)
(* OtherControls are the remaining characters below U+0020; OtherSpaces    *)
(* are the remaining characters that Python's str.isspace holds of.        *)
(***************************************************************************)
OtherControls ==
    {"U+0000", "U+0001", "U+0002", "U+0003", "U+0004", "U+0005", "U+0006", "U+0007",
     "U+0008", "U+000B", "U+000E", "U+000F", "U+0010", "U+0011", "U+0012", "U+0013",
     "U+0014", "U+0015", "U+0016", "U+0017", "U+0018", "U+0019", "U+001A", "U+001B",
     "U+001C", "U+001D", "U+001E", "U+001F"}
OtherSpaces ==
    {"U+000B", "U+001C", "U+001D", "U+001E", "U+001F", "U+0085", "U+00A0", "U+1680",
     "U+2000", "U+2001", "U+2002", "U+2003", "U+2004", "U+2005", "U+2006", "U+2007",
     "U+2008", "U+2009", "U+200A", "U+2028", "U+2029", "U+202F", "U+205F", "U+3000"}

(***************************************************************************)
(* Python values.                                                          *)
(***************************************************************************)
None == [t |-> "none", v |-> 0]
Bool(b) == [t |-> "bool", v |-> b]
Num(n) == [t |-> "num", v |-> n]
\* a float is kept as mantissa and decimal exponent (only 1e5-style literals occur)
Float(m, e) == [t |-> "float", v |-> <<m, e>>]
Str(chars) == [t |-> "str", v |-> chars]
List(elems) == [t |-> "list", v |-> elems]
\* a dict is its sequence of <<key, value>> pairs in insertion order
Dict(pairs) == [t |-> "dict", v |-> pairs]

IsStr(x) == x.t = "str"
IsList(x) == x.t = "list"
IsDict(x) == x.t = "dict"

IsNumber(x) == x.t \in {"bool", "num", "float"}

\* a number as <<mantissa, decimal exponent>>: True is 1, False is 0, an int n is n
Mantissa(x) ==
    CASE x.t = "bool" -> (IF x.v THEN 1 ELSE 0)
      [] x.t = "num" -> x.v
      [] x.t = "float" -> x.v[1]

Exponent(x) == IF x.t = "float" THEN x.v[2] ELSE 0

\* <<m, e>> without the trailing zeros of m, so that equal numbers have one form
RECURSIVE Normal(_, _)
Normal(m, e) ==
    IF m = 0 THEN <<0, 0>>
    ELSE IF m % 10 = 0 THEN Normal(m \div 10, e + 1)
    ELSE <<m, e>>

\* Python's == on the values of the model: numbers compare by value whatever
\* their type (1 == 1.0 == True, 1e0 == 10e-1), lists element by element,
\* dicts as sets of items
RECURSIVE PyEq(_, _)
PyEq(a, b) ==
    IF IsNumber(a) /\ IsNumber(b)
    THEN Normal(Mantissa(a), Exponent(a)) = Normal(Mantissa(b), Exponent(b))
    ELSE IF a.t = "list" /\ b.t = "list"
    THEN Len(a.v) = Len(b.v) /\ \A i \in 1..Len(a.v) : PyEq(a.v[i], b.v[i])
    ELSE IF a.t = "dict" /\ b.t = "dict"
    THEN /\ Len(a.v) = Len(b.v)
         /\ \A i \in 1..Len(a.v) : \E j \in 1..Len(b.v) :
                PyEq(a.v[i][1], b.v[j][1]) /\ PyEq(a.v[i][2], b.v[j][2])
    ELSE a = b

\* bool(x): the truth value Python's `not x` / `if x` uses
Truthy(x) ==
    CASE x.t = "none" -> FALSE
      [] x.t = "bool" -> x.v
      [] x.t = "num" -> x.v # 0
      [] x.t = "float" -> x.v[1] # 0
      [] OTHER -> Len(x.v) > 0

\* lists and dicts cannot be dict keys (TypeError: unhashable type)
Hashable(x) == x.t \notin {"list", "dict"}

(***************************************************************************)
(* dict operations                                                         *)
(***************************************************************************)
HasKey(d, k) == \E i \in 1..Len(d.v) : PyEq(d.v[i][1], k)

KeyIndex(d, k) == CHOOSE i \in 1..Len(d.v) : PyEq(d.v[i][1], k)

\* d.get(k, default)
get(d, k, default) == IF HasKey(d, k) THEN d.v[KeyIndex(d, k)][2] ELSE default

\* d[k] = val: an existing key keeps its position (and its key object)
setitem(d, k, val) ==
    IF HasKey(d, k)
    THEN Dict([i \in 1..Len(d.v) |->
                 IF i = KeyIndex(d, k) THEN <<d.v[i][1], val>> ELSE d.v[i]])
    ELSE Dict(Append(d.v, <<k, val>>))

(***************************************************************************)
(* str operations                                                          *)
(***************************************************************************)
\* the characters str.isspace holds of, which str.strip() removes
IsWs(c) == c \in {" ", NL, "\t", "\r", FF} \cup OtherSpaces

RECURSIVE LStrip(_)
LStrip(s) == IF s # <<>> /\ IsWs(Head(s)) THEN LStrip(Tail(s)) ELSE s

RECURSIVE RStrip(_)
RStrip(s) ==
    IF s # <<>> /\ IsWs(s[Len(s)]) THEN RStrip(SubSeq(s, 1, Len(s) - 1)) ELSE s

\* s.strip()
strip(s) == RStrip(LStrip(s))

\* s.startswith(p)
startswith(s, p) == Len(s) >= Len(p) /\ SubSeq(s, 1, Len(p)) = p

\* s.endswith(p)
endswith(s, p) == Len(s) >= Len(p) /\ SubSeq(s, Len(s) - Len(p) + 1, Len(s)) = p

\* s.find(c) for a one-character c, as a 1-based index; 0 stands for Python's -1
find(s, c) ==
    IF \E i \in 1..Len(s) : s[i] = c
    THEN CHOOSE i \in 1..Len(s) : s[i] = c /\ \A j \in 1..(i - 1) : s[j] # c
    ELSE 0

\* s.rfind(c), same convention
rfind(s, c) ==
    IF \E i \in 1..Len(s) : s[i] = c
    THEN CHOOSE i \in 1..Len(s) : s[i] = c /\ \A j \in (i + 1)..Len(s) : s[j] # c
    ELSE 0

\* `needle in hay` for two str
HasSubstring(needle, hay) ==
    \E i \in 1..(Len(hay) - Len(needle) + 1) :
        SubSeq(hay, i, i + Len(needle) - 1) = needle

(***************************************************************************)
(* String constants of the program.                                        *)
(***************************************************************************)
K_industry == Str(<<"i", "n", "d", "u", "s", "t", "r", "y">>)
K_segment == Str(<<"s", "e", "g", "m", "e", "n", "t">>)
K_offerings == Str(<<"o", "f", "f", "e", "r", "i", "n", "g", "s">>)
K_strategic_focus ==
    Str(<<"s", "t", "r", "a", "t", "e", "g", "i", "c", "_", "f", "o", "c", "u", "s">>)
K_input_name == Str(<<"i", "n", "p", "u", "t", "_", "n", "a", "m", "e">>)
K_search_results ==
    Str(<<"s", "e", "a", "r", "c", "h", "_", "r", "e", "s", "u", "l", "t", "s">>)
K_title == Str(<<"t", "i", "t", "l", "e">>)
K_snippet == Str(<<"s", "n", "i", "p", "p", "e", "t">>)
K_link == Str(<<"l", "i", "n", "k">>)
NA == Str(<<"N", "/", "A">>)
ErrorWord == <<"E", "r", "r", "o", "r">>
ErrorPrefix == <<"E", "r", "r", "o", "r", ":", " ">>
ParsingErrorMarker ==
    Str(<<"E", "x", "t", "r", "a", "c", "t", "i", "o", "n", " ", "F", "a", "i", "l",
          "e", "d", " ", "(", "P", "a", "r", "s", "i", "n", "g", " ", "E", "r", "r",
          "o", "r", ")">>)
UntitledUseCase ==
    Str(<<"U", "n", "t", "i", "t", "l", "e", "d", " ", "U", "s", "e", " ", "C", "a",
          "s", "e">>)
NoTitle == Str(<<"N", "o", " ", "T", "i", "t", "l", "e">>)
FenceOpen == <<BACKTICK, BACKTICK, BACKTICK, "j", "s", "o", "n">>
FenceClose == <<BACKTICK, BACKTICK, BACKTICK>>

(***************************************************************************)
(* json.loads, as the scanner of Python's json module works: scan_once     *)
(* dispatches on the next character, JSONArray and JSONObject skip         *)
(* whitespace around their delimiters, and loads rejects trailing data.    *)
(* A result is [ok, val, end]; end is the index after the value.           *)
(***************************************************************************)
ParseFail == [ok |-> FALSE, val |-> None, end |-> 0]
ParseOk(val, end) == [ok |-> TRUE, val |-> val, end |-> end]

Digits == {"0", "1", "2", "3", "4", "5", "6", "7", "8", "9"}

DigitVal(c) ==
    CASE c = "0" -> 0 [] c = "1" -> 1 [] c = "2" -> 2 [] c = "3" -> 3
      [] c = "4" -> 4 [] c = "5" -> 5 [] c = "6" -> 6 [] c = "7" -> 7
      [] c = "8" -> 8 [] c = "9" -> 9

\* WHITESPACE of json.decoder: [ \t\n\r]*
IsJsonWs(c) == c \in {" ", "\t", NL, "\r"}

RECURSIVE SkipWs(_, _)
SkipWs(s, i) == IF i <= Len(s) /\ IsJsonWs(s[i]) THEN SkipWs(s, i + 1) ELSE i

\* the run of digits from i on: [val, end]
RECURSIVE ScanDigits(_, _, _)
ScanDigits(s, i, acc) ==
    IF i <= Len(s) /\ s[i] \in Digits
    THEN ScanDigits(s, i + 1, 10 * acc + DigitVal(s[i]))
    ELSE [val |-> acc, end |-> i]

DigitsToInt(r) == ParseOk(Num(r.val), r.end)

\* the integer part of NUMBER_RE, without its sign: 0|[1-9][0-9]*
ScanInt(s, i) ==
    IF i > Len(s) \/ s[i] \notin Digits THEN ParseFail
    ELSE IF s[i] = "0" THEN ParseOk(Num(0), i + 1)
    ELSE DigitsToInt(ScanDigits(s, i, 0))

Negated(r) == IF r.ok THEN ParseOk(Num(0 - r.val.v), r.end) ELSE ParseFail

\* -?(0|[1-9][0-9]*)
ScanSignedInt(s, i) == IF s[i] = "-" THEN Negated(ScanInt(s, i + 1)) ELSE ScanInt(s, i)

\* the digits of an exponent that starts at d (after e, E and the sign)
WithExponentDigits(s, m, d, e) ==
    IF e.end > d
    THEN ParseOk(Float(m.val.v, IF s[d - 1] = "-" THEN 0 - e.val ELSE e.val), e.end)
    ELSE m

WithExponentAt(s, m, d) == WithExponentDigits(s, m, d, ScanDigits(s, d, 0))

\* the optional exponent [eE][-+]?[0-9]+ makes the number a float
WithExponent(s, m) ==
    IF m.ok /\ m.end <= Len(s) /\ s[m.end] \in {"e", "E"}
    THEN WithExponentAt(s, m, IF m.end + 1 <= Len(s) /\ s[m.end + 1] \in {"-", "+"}
                              THEN m.end + 2 ELSE m.end + 1)
    ELSE m

ScanNumber(s, i) == WithExponent(s, ScanSignedInt(s, i))

\* a character below U+0020
IsControl(c) == c \in {NL, "\t", "\r", FF} \cup OtherControls

\* scanstring (strict): from i, after the opening quote, to the closing quote;
\* a control character inside the string is an error
RECURSIVE ScanString(_, _, _)
ScanString(s, i, acc) ==
    IF i > Len(s) THEN ParseFail
    ELSE IF s[i] = QUOTE THEN ParseOk(Str(acc), i + 1)
    ELSE IF IsControl(s[i]) THEN ParseFail
    ELSE ScanString(s, i + 1, Append(acc, s[i]))

IsLiteral(s, i, word) ==
    i + Len(word) - 1 <= Len(s) /\ SubSeq(s, i, i + Len(word) - 1) = word

RECURSIVE ParseValue(_, _)
RECURSIVE ArrayElems(_, _, _)
RECURSIVE ArrayAfterValue(_, _, _)
RECURSIVE ArrayDelimiter(_, _, _)
RECURSIVE ObjectPairs(_, _, _)
RECURSIVE ObjectColon(_, _, _)
RECURSIVE ObjectValue(_, _, _, _)
RECURSIVE ObjectAfterValue(_, _, _, _)
RECURSIVE ObjectDelimiter(_, _, _)
RECURSIVE ObjectNextKey(_, _, _)

\* JSONArray: j is the first index after '[' that holds no whitespace
ArrayFrom(s, j) ==
    IF j <= Len(s) /\ s[j] = "]" THEN ParseOk(List(<<>>), j + 1)
    ELSE ArrayElems(s, j, <<>>)

ParseArray(s, i) == ArrayFrom(s, SkipWs(s, i))

\* JSONObject: j is the first index after '{' that holds no whitespace
ObjectFrom(s, j) ==
    IF j > Len(s) THEN ParseFail
    ELSE IF s[j] = "}" THEN ParseOk(Dict(<<>>), j + 1)
    ELSE IF s[j] # QUOTE THEN ParseFail
    ELSE ObjectPairs(s, j, Dict(<<>>))

ParseObject(s, i) == ObjectFrom(s, SkipWs(s, i))

\* scan_once
ParseValue(s, i) ==
    IF i > Len(s) THEN ParseFail
    ELSE IF s[i] = QUOTE THEN ScanString(s, i + 1, <<>>)
    ELSE IF s[i] = "{" THEN ParseObject(s, i + 1)
    ELSE IF s[i] = "[" THEN ParseArray(s, i + 1)
    ELSE IF IsLiteral(s, i, <<"n", "u", "l", "l">>) THEN ParseOk(None, i + 4)
    ELSE IF IsLiteral(s, i, <<"t", "r", "u", "e">>) THEN ParseOk(Bool(TRUE), i + 4)
    ELSE IF IsLiteral(s, i, <<"f", "a", "l", "s", "e">>) THEN ParseOk(Bool(FALSE), i + 5)
    ELSE IF s[i] = "-" \/ s[i] \in Digits THEN ScanNumber(s, i)
    ELSE ParseFail

\* the loop of JSONArray: a value, then ']' or ','
ArrayElems(s, i, acc) == ArrayAfterValue(s, acc, ParseValue(s, i))

ArrayAfterValue(s, acc, r) ==
    IF ~r.ok THEN ParseFail ELSE ArrayDelimiter(s, Append(acc, r.val), SkipWs(s, r.end))

ArrayDelimiter(s, acc, j) ==
    IF j > Len(s) THEN ParseFail
    ELSE IF s[j] = "]" THEN ParseOk(List(acc), j + 1)
    ELSE IF s[j] = "," THEN ArrayElems(s, SkipWs(s, j + 1), acc)
    ELSE ParseFail

\* the loop of JSONObject: s[i] is the opening quote of a key; then ':', a
\* value, and '}' or ',' followed by the next key.  Duplicate keys: the last
\* value wins.
ObjectPairs(s, i, acc) == ObjectColon(s, acc, ScanString(s, i + 1, <<>>))

ObjectColon(s, acc, k) ==
    IF ~k.ok THEN ParseFail ELSE ObjectValue(s, acc, k.val, SkipWs(s, k.end))

ObjectValue(s, acc, key, c) ==
    IF c > Len(s) \/ s[c] # ":" THEN ParseFail
    ELSE ObjectAfterValue(s, acc, key, ParseValue(s, SkipWs(s, c + 1)))

ObjectAfterValue(s, acc, key, r) ==
    IF ~r.ok THEN ParseFail
    ELSE ObjectDelimiter(s, setitem(acc, key, r.val), SkipWs(s, r.end))

ObjectDelimiter(s, acc, j) ==
    IF j > Len(s) THEN ParseFail
    ELSE IF s[j] = "}" THEN ParseOk(acc, j + 1)
    ELSE IF s[j] = "," THEN ObjectNextKey(s, acc, SkipWs(s, j + 1))
    ELSE ParseFail

ObjectNextKey(s, acc, n) ==
    IF n <= Len(s) /\ s[n] = QUOTE THEN ObjectPairs(s, n, acc) ELSE ParseFail

\* the end of json.loads: only whitespace may follow the value
LoadsResult(s, r) ==
    IF r.ok /\ SkipWs(s, r.end) = Len(s) + 1
    THEN [ok |-> TRUE, val |-> r.val]
    ELSE [ok |-> FALSE, val |-> None]

\* json.loads(s): [ok, val]; ok = FALSE is json.JSONDecodeError
json_loads(s) == LoadsResult(s, ParseValue(s, SkipWs(s, 1)))

(***************************************************************************)
(* More string constants: the search response key and the fallback         *)
(* suggestion of optional_genai_proposer_agent.                            *)
(***************************************************************************)
K_items ==
    Str(<<"i", "t", "e", "m", "s">>)
K_application ==
    Str(<<"a", "p", "p", "l", "i", "c", "a", "t", "i", "o", "n">>)
K_potential_benefit ==
    Str(<<"p", "o", "t", "e", "n", "t", "i", "a", "l", "_", "b", "e", "n",
          "e", "f", "i", "t">>)
K_fit_area ==
    Str(<<"f", "i", "t", "_", "a", "r", "e", "a">>)
FallbackTitle ==
    Str(<<"G", "e", "n", "e", "r", "i", "c", " ", "A", "I", "-", "P", "o",
          "w", "e", "r", "e", "d", " ", "C", "h", "a", "t", "b", "o", "t",
          " ", "f", "o", "r", " ", "F", "A", "Q", "s">>)
FallbackApplication ==
    Str(<<"I", "m", "p", "l", "e", "m", "e", "n", "t", " ", "a", " ", "c",
          "h", "a", "t", "b", "o", "t", " ", "o", "n", " ", "t", "h", "e",
          " ", "c", "o", "m", "p", "a", "n", "y", " ", "w", "e", "b", "s",
          "i", "t", "e", " ", "o", "r", " ", "i", "n", "t", "e", "r", "n",
          "a", "l", " ", "p", "o", "r", "t", "a", "l", " ", "t", "o", " ",
          "a", "n", "s", "w", "e", "r", " ", "f", "r", "e", "q", "u", "e",
          "n", "t", "l", "y", " ", "a", "s", "k", "e", "d", " ", "q", "u",
          "e", "s", "t", "i", "o", "n", "s", ".">>)
FallbackBenefit ==
    Str(<<"I", "m", "p", "r", "o", "v", "e", " ", "e", "f", "f", "i", "c",
          "i", "e", "n", "c", "y", " ", "b", "y", " ", "a", "u", "t", "o",
          "m", "a", "t", "i", "n", "g", " ", "r", "e", "s", "p", "o", "n",
          "s", "e", "s", " ", "t", "o", " ", "c", "o", "m", "m", "o", "n",
          " ", "q", "u", "e", "r", "i", "e", "s", ",", " ", "f", "r", "e",
          "e", " ", "u", "p", " ", "s", "t", "a", "f", "f", " ", "t", "i",
          "m", "e", ",", " ", "p", "r", "o", "v", "i", "d", "e", " ", "2",
          "4", "/", "7", " ", "s", "u", "p", "p", "o", "r", "t", ".">>)
FallbackFitArea ==
    Str(<<"C", "u", "s", "t", "o", "m", "e", "r", " ", "S", "e", "r", "v",
          "i", "c", "e", ",", " ", "I", "n", "t", "e", "r", "n", "a", "l",
          " ", "O", "p", "e", "r", "a", "t", "i", "o", "n", "s", ",", " ",
          "H", "R">>)
FallbackSuggestion ==
    Dict(<< <<K_title, FallbackTitle>>,
            <<K_application, FallbackApplication>>,
            <<K_potential_benefit, FallbackBenefit>>,
            <<K_fit_area, FallbackFitArea>> >>)

(***************************************************************************)
(* The search tool.  A response of the search API is ApiError (the call    *)
(* raised) or the dict it returned; perform_GoogleSearch turns both an     *)
(* error and a response without "items" into the empty list; the value of  *)
(* "items" is returned as it is.                                           *)
(***************************************************************************)
ApiError == [t |-> "raise", v |-> 0]

\* search_results.get on a response that is no dict raises inside the try
perform_GoogleSearch(resp) ==
    IF resp = ApiError \/ ~IsDict(resp) THEN List(<<>>) ELSE get(resp, K_items, List(<<>>))

\* `for item in x` raises TypeError on a value that is not iterable
NotIterable(x) == x.t \in {"none", "bool", "num", "float"}

\* the values `for item in x` and list.extend(x) visit: the elements of a
\* list, the characters of a str, the keys of a dict
Elements(x) ==
    CASE x.t = "list" -> x.v
      [] x.t = "str" -> IF x.v = <<>> THEN <<>> ELSE [i \in 1..Len(x.v) |-> Str(<<x.v[i]>>)]
      [] x.t = "dict" -> IF x.v = <<>> THEN <<>> ELSE [i \in 1..Len(x.v) |-> x.v[i][1]]
      [] OTHER -> <<>>

\* for item in results: ... item.get(...) ...: outside any try, it raises
\* TypeError when results is not iterable and AttributeError at the first
\* item that is no dict
ItemLoopRaises(results) ==
    \/ NotIterable(results)
    \/ \E i \in 1..Len(Elements(results)) : ~IsDict(Elements(results)[i])

(***************************************************************************)
(* The generator.  An outcome of generate_content(...).text is GenRaise    *)
(* with the exception's message, or GenText with the returned text.        *)
(***************************************************************************)
GenRaise(msg) == [raise |-> TRUE, text |-> msg]
GenText(text) == [raise |-> FALSE, text |-> text]
\* no generator call was made
NoGen == [raise |-> FALSE, text |-> <<"-">>]

(***************************************************************************)
(* dict.update(x) with the argument json.loads produced.  A dict is        *)
(* merged; any other iterable is read as a sequence of (key, value) pairs, *)
(* each of which must itself be an iterable of length 2; the pairs before  *)
(* a bad element stay merged.  The result is [raised, d, msg], msg being   *)
(* the message of the TypeError / ValueError that update raised.           *)
(***************************************************************************)
DigitChar(d) ==
    CASE d = 0 -> "0" [] d = 1 -> "1" [] d = 2 -> "2" [] d = 3 -> "3" [] d = 4 -> "4"
      [] d = 5 -> "5" [] d = 6 -> "6" [] d = 7 -> "7" [] d = 8 -> "8" [] d = 9 -> "9"

\* str(n) for n >= 0
RECURSIVE NatChars(_)
NatChars(n) ==
    IF n < 10 THEN <<DigitChar(n)>> ELSE Append(NatChars(n \div 10), DigitChar(n % 10))

\* type(x).__name__
TypeName(x) ==
    CASE x.t = "none" -> <<"N", "o", "n", "e", "T", "y", "p", "e">>
      [] x.t = "bool" -> <<"b", "o", "o", "l">>
      [] x.t = "num" -> <<"i", "n", "t">>
      [] x.t = "float" -> <<"f", "l", "o", "a", "t">>
      [] x.t = "str" -> <<"s", "t", "r">>
      [] x.t = "list" -> <<"l", "i", "s", "t">>
      [] x.t = "dict" -> <<"d", "i", "c", "t">>

\* TypeError: 'int' object is not iterable
NotIterableMsg(x) == <<"'">> \o TypeName(x) \o <<"'", " ", "o", "b", "j", "e", "c", "t",
    " ", "i", "s", " ", "n", "o", "t", " ", "i", "t", "e", "r", "a", "b", "l", "e">>

\* TypeError: cannot convert dictionary update sequence element #0 to a sequence
NotASequenceMsg(i) ==
    <<"c", "a", "n", "n", "o", "t", " ", "c", "o", "n", "v", "e", "r", "t", " ", "d",
        "i", "c", "t", "i", "o", "n", "a", "r", "y", " ", "u", "p", "d", "a", "t", "e",
        " ", "s", "e", "q", "u", "e", "n", "c", "e", " ", "e", "l", "e", "m", "e", "n",
        "t", " ", "#">> \o NatChars(i - 1)
    \o <<" ", "t", "o", " ", "a", " ", "s", "e", "q", "u", "e", "n", "c", "e">>

\* ValueError: dictionary update sequence element #0 has length 1; 2 is required
BadLengthMsg(i, n) ==
    <<"d", "i", "c", "t", "i", "o", "n", "a", "r", "y", " ", "u", "p", "d", "a", "t",
        "e", " ", "s", "e", "q", "u", "e", "n", "c", "e", " ", "e", "l", "e", "m", "e",
        "n", "t", " ", "#">> \o NatChars(i - 1) \o <<" ", "h", "a", "s", " ", "l", "e",
        "n", "g", "t", "h", " ">>
    \o NatChars(n) \o <<";", " ", "2", " ", "i", "s", " ", "r", "e", "q", "u", "i", "r",
        "e", "d">>

\* TypeError: unhashable type: 'list'
UnhashableMsg(k) == <<"u", "n", "h", "a", "s", "h", "a", "b", "l", "e", " ", "t", "y",
    "p", "e", ":", " ", "'">> \o TypeName(k) \o <<"'">>

Updated(d) == [raised |-> FALSE, d |-> d, msg |-> <<>>]
UpdateRaised(d, msg) == [raised |-> TRUE, d |-> d, msg |-> msg]

RECURSIVE MergePairs(_, _, _)
MergePairs(d, pairs, i) ==
    IF i > Len(pairs) THEN d
    ELSE MergePairs(setitem(d, pairs[i][1], pairs[i][2]), pairs, i + 1)

RECURSIVE UpdateFromSeq(_, _, _)

\* element i of the sequence: it must hold exactly a key and a value
UpdateElement(d, elems, i, e) ==
    IF e.t \in {"none", "bool", "num", "float"} THEN UpdateRaised(d, NotASequenceMsg(i))
    ELSE IF Len(e.v) # 2 THEN UpdateRaised(d, BadLengthMsg(i, Len(e.v)))
    ELSE IF e.t = "str"
         THEN UpdateFromSeq(setitem(d, Str(<<e.v[1]>>), Str(<<e.v[2]>>)), elems, i + 1)
    ELSE IF e.t = "dict"
         THEN UpdateFromSeq(setitem(d, e.v[1][1], e.v[2][1]), elems, i + 1)
    ELSE IF ~Hashable(e.v[1]) THEN UpdateRaised(d, UnhashableMsg(e.v[1]))
    ELSE UpdateFromSeq(setitem(d, e.v[1], e.v[2]), elems, i + 1)

UpdateFromSeq(d, elems, i) ==
    IF i > Len(elems) THEN Updated(d) ELSE UpdateElement(d, elems, i, elems[i])

\* a str is a sequence of one-character strs, so only the empty one is accepted
update(d, x) ==
    CASE x.t = "dict" -> Updated(MergePairs(d, x.v, 1))
      [] x.t = "list" -> UpdateFromSeq(d, x.v, 1)
      [] x.t = "str" -> IF x.v = <<>> THEN Updated(d) ELSE UpdateRaised(d, BadLengthMsg(1, 1))
      [] OTHER -> UpdateRaised(d, NotIterableMsg(x))

(***************************************************************************)
(* The precondition test shared by both agents and the orchestrator:       *)
(*   not research_data or research_data.get("industry") in [None, "N/A"]   *)
(*   or "Error" in research_data.get("industry", "")                       *)
(* "skip" when it is true, "pass" when it is false, "raise" when the `in`  *)
(* is applied to a value that is no container (TypeError).                 *)
(***************************************************************************)
\* "Error" in x, for x a str, a list or a dict
ContainsError(x) ==
    CASE x.t = "str" -> HasSubstring(ErrorWord, x.v)
      [] x.t = "list" -> \E i \in 1..Len(x.v) : x.v[i] = Str(ErrorWord)
      [] x.t = "dict" -> HasKey(x, Str(ErrorWord))
      [] OTHER -> FALSE

\* a faulty variant of GateOnIndustry: the test for "N/A" left out
GateOnIndustryWithoutNA(industry) ==
    IF industry = None THEN "skip"
    ELSE IF industry.t \notin {"str", "list", "dict"} THEN "raise"
    ELSE IF ContainsError(industry) THEN "skip"
    ELSE "pass"

\* a faulty variant of GateOnIndustry: the test for "Error" left out
GateOnIndustryWithoutError(industry) ==
    IF industry = None \/ industry = NA THEN "skip"
    ELSE IF industry.t \notin {"str", "list", "dict"} THEN "raise"
    ELSE "pass"

GateOnIndustry(industry) ==
    IF industry = None \/ industry = NA THEN "skip"
    ELSE IF industry.t \notin {"str", "list", "dict"} THEN "raise"
    ELSE IF ContainsError(industry) THEN "skip"
    ELSE "pass"

Gate(research_data) ==
    IF ~Truthy(research_data) THEN "skip"
    ELSE GateOnIndustry(get(research_data, K_industry, None))

\* ", ".join(x if isinstance(x, list) and x else [default]) raises TypeError
\* when an element of the list is no str
JoinRaisesOn(x) == IsList(x) /\ Truthy(x) /\ \E i \in 1..Len(x.v) : ~IsStr(x.v[i])

JoinRaises(research_data, key) == JoinRaisesOn(get(research_data, key, None))

(***************************************************************************)
(* The fence cleaning every agent applies after a JSONDecodeError.         *)
(***************************************************************************)
FenceOpenLen == 7
FenceCloseLen == 3

StripFenceOpen(s) ==
    IF startswith(s, FenceOpen) THEN SubSeq(s, FenceOpenLen + 1, Len(s)) ELSE s

StripFenceClose(s) ==
    IF endswith(s, FenceClose) THEN SubSeq(s, 1, Len(s) - FenceCloseLen) ELSE s

\* a faulty variant of CleanFences: the opening fence cut like the closing one
CleanFencesShortCut(text) ==
    strip(StripFenceClose(
        IF startswith(strip(text), FenceOpen)
        THEN SubSeq(strip(text), FenceCloseLen + 1, Len(strip(text)))
        ELSE strip(text)))

CleanFences(text) == strip(StripFenceClose(StripFenceOpen(strip(text))))

(***************************************************************************)
(* research_agent                                                          *)
(***************************************************************************)
NumResearchQueries == 4

\* research_data as constructed at the top of research_agent
NewResearchData(company_or_industry_name) ==
    Dict(<< <<K_input_name, company_or_industry_name>>,
            <<K_industry, None>>,
            <<K_segment, None>>,
            <<K_offerings, None>>,
            <<K_strategic_focus, None>>,
            <<K_search_results, List(<<>>)>> >>)

\* the four fields set to a marker (in a one-element list for the list fields)
SetMarkers(d, marker) ==
    setitem(setitem(setitem(setitem(d,
        K_industry, marker),
        K_segment, marker),
        K_offerings, List(<<marker>>)),
        K_strategic_focus, List(<<marker>>))

\* lines 84-91: for each query in turn, research_data["search_results"]
\* .extend(results) and the loop over the items of results.  The result is
\* [raised, hits, nsearch]: whether the loop raised, the list extended so far
\* and the number of searches made
RECURSIVE ExtendAll(_, _, _)
ExtendAll(acc, resps, i) ==
    IF i > Len(resps) THEN [raised |-> FALSE, hits |-> acc, nsearch |-> Len(resps)]
    ELSE IF ItemLoopRaises(perform_GoogleSearch(resps[i]))
    THEN [raised |-> TRUE, nsearch |-> i,
          hits |-> acc \o Elements(perform_GoogleSearch(resps[i]))]
    ELSE ExtendAll(acc \o Elements(perform_GoogleSearch(resps[i])), resps, i + 1)

\* after research_data.update(extracted_info): a TypeError / ValueError of
\* update is caught by the outer `except Exception`
AfterUpdate(u) ==
    IF u.raised THEN SetMarkers(u.d, Str(ErrorPrefix \o u.msg)) ELSE u.d

\* a faulty variant of MergeExtracted: the parsed value is not merged
MergeExtractedDropped(d, extracted_info) == d

MergeExtracted(d, extracted_info) == AfterUpdate(update(d, extracted_info))

\* lines 134-144: the parse of the cleaned text
SecondParse(d, second) ==
    IF second.ok THEN MergeExtracted(d, second.val) ELSE SetMarkers(d, ParsingErrorMarker)

\* lines 120-132: the verbatim parse, and the cleaning when it fails
FirstParse(d, extracted_info_str, first) ==
    IF first.ok THEN MergeExtracted(d, first.val)
    ELSE SecondParse(d, json_loads(CleanFences(extracted_info_str)))

ParseResearch(d, extracted_info_str) ==
    FirstParse(d, extracted_info_str, json_loads(extracted_info_str))

\* lines 113-151: the generator call and the two parse attempts
ExtractResearch(d, gen) ==
    IF gen.raise THEN SetMarkers(d, Str(ErrorPrefix \o gen.text))
    ELSE ParseResearch(d, strip(gen.text))

\* a faulty variant of DefaultIndustry: a null industry is left as it is
DefaultIndustryKept(d) == d

\* lines 155-156
DefaultIndustry(d) ==
    IF get(d, K_industry, None) = None THEN setitem(d, K_industry, NA) ELSE d

\* a faulty variant of ResearchOnHits: no early return when nothing was found
ResearchOnHitsNoReturn(company_or_industry_name, hits, gen) ==
    [raised |-> FALSE,
     ret |-> DefaultIndustry(ExtractResearch(
                 setitem(NewResearchData(company_or_industry_name),
                         K_search_results, List(hits)), gen)),
     nsearch |-> NumResearchQueries, ngen |-> 1]

\* lines 93-158, after the searches
ResearchOnHits(company_or_industry_name, hits, gen) ==
    IF hits = <<>>
    THEN [raised |-> FALSE, ret |-> None, nsearch |-> NumResearchQueries, ngen |-> 0]
    ELSE [raised |-> FALSE,
          ret |-> DefaultIndustry(ExtractResearch(
                      setitem(NewResearchData(company_or_industry_name),
                              K_search_results, List(hits)), gen)),
          nsearch |-> NumResearchQueries, ngen |-> 1]

\* the exception of the item loop leaves research_agent
ResearchAfterSearch(company_or_industry_name, s, gen) ==
    IF s.raised THEN [raised |-> TRUE, ret |-> None, nsearch |-> s.nsearch, ngen |-> 0]
    ELSE ResearchOnHits(company_or_industry_name, s.hits, gen)

\* [raised, ret, nsearch, ngen]: whether an exception left the agent, the
\* returned profile (None when no search hit) and the number of search and
\* generator calls made
research_agent(company_or_industry_name, resps, gen) ==
    ResearchAfterSearch(company_or_industry_name, ExtendAll(<<>>, resps, 1), gen)

(***************************************************************************)
(* The array extraction of use_case_generation_agent and of                *)
(* optional_genai_proposer_agent (the same code in both).                  *)
(***************************************************************************)
ListOrEmpty(x) == IF IsList(x) THEN x ELSE List(<<>>)

\* lines 253-262: the parse of the substring
SubstringParse(second) == IF second.ok THEN ListOrEmpty(second.val) ELSE List(<<>>)

\* lines 247-265: from the first '[' to the last ']'
Salvage(cleaned, start_index, end_index) ==
    IF start_index # 0 /\ end_index # 0 /\ end_index > start_index
    THEN SubstringParse(json_loads(SubSeq(cleaned, start_index, end_index)))
    ELSE List(<<>>)

SalvageCleaned(cleaned) == Salvage(cleaned, find(cleaned, "["), rfind(cleaned, "]"))

\* lines 231-245: the verbatim parse, and the cleaning when it fails
ArrayFirstParse(s, first) ==
    IF first.ok THEN ListOrEmpty(first.val) ELSE SalvageCleaned(CleanFences(s))

ParseArrayText(s) == ArrayFirstParse(s, json_loads(s))

ExtractArray(gen) == IF gen.raise THEN List(<<>>) ELSE ParseArrayText(strip(gen.text))

(***************************************************************************)
(* use_case_generation_agent: [raised, ret, nsearch, ngen].  resps are the *)
(* responses to its four trend searches: their items go into the prompt    *)
(* only, but the loop over them raises on an item that is no dict.         *)
(***************************************************************************)
NumTrendQueries == 4

AgentRaised == [raised |-> TRUE, ret |-> None, nsearch |-> 0, ngen |-> 0]
AgentSkipped == [raised |-> FALSE, ret |-> List(<<>>), nsearch |-> 0, ngen |-> 0]

\* lines 184-188: the trend searches and the loop over their items;
\* [raised, nsearch]
RECURSIVE TrendLoop(_, _)
TrendLoop(resps, i) ==
    IF i > Len(resps) THEN [raised |-> FALSE, nsearch |-> Len(resps)]
    ELSE IF ItemLoopRaises(perform_GoogleSearch(resps[i]))
    THEN [raised |-> TRUE, nsearch |-> i]
    ELSE TrendLoop(resps, i + 1)

\* lines 190-272, after the trend searches
UseCasesAfterTrends(gen, t) ==
    IF t.raised THEN [raised |-> TRUE, ret |-> None, nsearch |-> t.nsearch, ngen |-> 0]
    ELSE [raised |-> FALSE, ret |-> ExtractArray(gen),
          nsearch |-> NumTrendQueries, ngen |-> 1]

UseCasesAfterGate(research_data, resps, gen, g) ==
    IF g = "raise" THEN AgentRaised
    ELSE IF g = "skip" THEN AgentSkipped
    ELSE IF JoinRaises(research_data, K_offerings)
            \/ JoinRaises(research_data, K_strategic_focus) THEN AgentRaised
    ELSE UseCasesAfterTrends(gen, TrendLoop(resps, 1))

use_case_generation_agent(research_data, resps, gen) ==
    UseCasesAfterGate(research_data, resps, gen, Gate(research_data))

(***************************************************************************)
(* resource_collection_agent: [raised, ret, nsearch].  resps[i] is the     *)
(* pair of search responses to the two queries of use case i.              *)
(***************************************************************************)
QueriesPerUseCase == 2

LinkEntry(item, link) ==
    Dict(<< <<K_title, get(item, K_title, NoTitle)>>,
            <<K_link, link>>,
            <<K_snippet, get(item, K_snippet, NA)>> >>)

\* a faulty variant of AddLink: the test for a link already collected left out
AddLinkNoDedup(links, item, link) ==
    IF Truthy(link) THEN Append(links, LinkEntry(item, link)) ELSE links

\* if link and link not in [l['link'] for l in collected_links[title]]: append
AddLink(links, item, link) ==
    IF Truthy(link) /\ ~\E j \in 1..Len(links) : PyEq(get(links[j], K_link, None), link)
    THEN Append(links, LinkEntry(item, link))
    ELSE links

\* the inner loop over the items of one result list
RECURSIVE AddLinks(_, _, _)
AddLinks(links, items, i) ==
    IF i > Len(items) THEN links
    ELSE AddLinks(AddLink(links, items[i], get(items[i], K_link, None)), items, i + 1)

\* the loop over the two queries of one use case
LinksOfUseCase(pair) ==
    AddLinks(AddLinks(<<>>, Elements(perform_GoogleSearch(pair[1])), 1),
             Elements(perform_GoogleSearch(pair[2])), 1)

\* lines 299-301: the loop over the items of query q of use case i raises;
\* nsearch counts the searches made up to it
QueryRaised(i, q) ==
    [raised |-> TRUE, ret |-> None, nsearch |-> QueriesPerUseCase * (i - 1) + q]

RECURSIVE ResourceLoop(_, _, _, _)

\* a faulty variant of ResourcesOfTitle: a use case without a title is skipped
ResourcesOfTitleSkipUntitled(use_cases, resps, i, collected_links, title) ==
    IF ~Hashable(title)
    THEN [raised |-> TRUE, ret |-> None, nsearch |-> QueriesPerUseCase * (i - 1)]
    ELSE IF ItemLoopRaises(perform_GoogleSearch(resps[i][1])) THEN QueryRaised(i, 1)
    ELSE IF ItemLoopRaises(perform_GoogleSearch(resps[i][2])) THEN QueryRaised(i, 2)
    ELSE IF title = UntitledUseCase
    THEN ResourceLoop(use_cases, resps, i + 1, collected_links)
    ELSE ResourceLoop(use_cases, resps, i + 1,
                      setitem(collected_links, title, List(LinksOfUseCase(resps[i]))))

ResourcesOfTitle(use_cases, resps, i, collected_links, title) ==
    IF ~Hashable(title)
    THEN [raised |-> TRUE, ret |-> None, nsearch |-> QueriesPerUseCase * (i - 1)]
    ELSE IF ItemLoopRaises(perform_GoogleSearch(resps[i][1])) THEN QueryRaised(i, 1)
    ELSE IF ItemLoopRaises(perform_GoogleSearch(resps[i][2])) THEN QueryRaised(i, 2)
    ELSE ResourceLoop(use_cases, resps, i + 1,
                      setitem(collected_links, title, List(LinksOfUseCase(resps[i]))))

\* the loop over the use cases; uc.get raises AttributeError on a value that
\* is no dict, collected_links[title] = [] raises TypeError on a list or dict
ResourceLoop(use_cases, resps, i, collected_links) ==
    IF i > Len(use_cases)
    THEN [raised |-> FALSE, ret |-> collected_links,
          nsearch |-> QueriesPerUseCase * Len(use_cases)]
    ELSE IF ~IsDict(use_cases[i])
    THEN [raised |-> TRUE, ret |-> None, nsearch |-> QueriesPerUseCase * (i - 1)]
    ELSE ResourcesOfTitle(use_cases, resps, i, collected_links,
                          get(use_cases[i], K_title, UntitledUseCase))

resource_collection_agent(use_cases, resps) ==
    IF ~Truthy(use_cases) THEN [raised |-> FALSE, ret |-> Dict(<<>>), nsearch |-> 0]
    ELSE ResourceLoop(use_cases.v, resps, 1, Dict(<<>>))

(***************************************************************************)
(* optional_genai_proposer_agent: [raised, ret, nsearch, ngen]             *)
(***************************************************************************)
\* a faulty variant of WithFallback: the fallback left out
WithFallbackDropped(suggestions) == suggestions

\* lines 397-404
WithFallback(suggestions) ==
    IF ~Truthy(suggestions) THEN List(<<FallbackSuggestion>>) ELSE suggestions

ProposerAfterGate(research_data, gen, g) ==
    IF g = "raise" THEN AgentRaised
    ELSE IF g = "skip" THEN AgentSkipped
    ELSE IF JoinRaises(research_data, K_offerings)
            \/ JoinRaises(research_data, K_strategic_focus) THEN AgentRaised
    ELSE [raised |-> FALSE, ret |-> WithFallback(ExtractArray(gen)),
          nsearch |-> 0, ngen |-> 1]

optional_genai_proposer_agent(research_data, gen) ==
    ProposerAfterGate(research_data, gen, Gate(research_data))

(***************************************************************************)
(* json.dumps with its default separators: what "the exact serialization   *)
(* of V" is for the texts the generator returns.                           *)
(***************************************************************************)
RECURSIVE Serialize(_)
RECURSIVE SerializeElems(_, _)
RECURSIVE SerializePairs(_, _)

SerializeElems(elems, i) ==
    IF i > Len(elems) THEN <<>>
    ELSE (IF i > 1 THEN <<",", " ">> ELSE <<>>) \o Serialize(elems[i])
         \o SerializeElems(elems, i + 1)

SerializePairs(pairs, i) ==
    IF i > Len(pairs) THEN <<>>
    ELSE (IF i > 1 THEN <<",", " ">> ELSE <<>>) \o Serialize(pairs[i][1]) \o <<":", " ">>
         \o Serialize(pairs[i][2]) \o SerializePairs(pairs, i + 1)

Serialize(x) ==
    CASE x.t = "none" -> <<"n", "u", "l", "l">>
      [] x.t = "bool" -> IF x.v THEN <<"t", "r", "u", "e">> ELSE <<"f", "a", "l", "s", "e">>
      [] x.t = "num" -> IF x.v < 0 THEN <<"-">> \o NatChars(0 - x.v) ELSE NatChars(x.v)
      [] x.t = "str" -> <<QUOTE>> \o x.v \o <<QUOTE>>
      [] x.t = "list" -> <<"[">> \o SerializeElems(x.v, 1) \o <<"]">>
      [] x.t = "dict" -> <<"{">> \o SerializePairs(x.v, 1) \o <<"}">>

\* the text wrapped in a markdown fence: a leading ```json line, a trailing ```
Fenced(text) == FenceOpen \o <<NL>> \o text \o <<NL>> \o FenceClose

\* the text wrapped in prose: "Sure! Here you go: " ... " Hope that helps."
ProseBefore == <<"S", "u", "r", "e", "!", " ", "H", "e", "r", "e", " ", "y", "o", "u",
    " ", "g", "o", ":", " ">>
ProseAfter == <<" ", "H", "o", "p", "e", " ", "t", "h", "a", "t", " ", "h", "e", "l",
    "p", "s", ".">>
InProse(text) == ProseBefore \o text \o ProseAfter

(***************************************************************************)
(* Inputs: subject names, search result items and responses, and the JSON  *)
(* values and texts the generator returns at each stage.                   *)
(***************************************************************************)
S_Acme == Str(<<"A", "c", "m", "e">>)
S_Tech == Str(<<"T", "e", "c", "h">>)
S_A == Str(<<"A">>)
S_B == Str(<<"B">>)
S_d == Str(<<"d">>)
K_description == Str(<<"d", "e", "s", "c", "r", "i", "p", "t", "i", "o", "n">>)

Names == {S_Acme}

\* items of a search response: ItemB shares ItemA's link, ItemC has an empty
\* link, ItemD has no link, ItemE has nothing but a link
ItemA == Dict(<< <<K_title, Str(<<"T", "1">>)>>, <<K_snippet, Str(<<"S", "1">>)>>,
                 <<K_link, Str(<<"L", "1">>)>> >>)
ItemB == Dict(<< <<K_title, Str(<<"T", "2">>)>>, <<K_link, Str(<<"L", "1">>)>> >>)
ItemC == Dict(<< <<K_title, Str(<<"T", "3">>)>>, <<K_link, Str(<<>>)>> >>)
ItemD == Dict(<< <<K_snippet, Str(<<"S", "4">>)>> >>)
ItemE == Dict(<< <<K_link, Str(<<"L", "2">>)>> >>)

Hits(items) == Dict(<< <<K_items, List(items)>> >>)
NoItemsKey == Dict(<<>>)

\* a response with an item that is no dict
BadHits == Hits(<<Num(5)>>)

\* the responses to one research query
ResearchResponses == {ApiError, NoItemsKey, Hits(<<ItemA>>), BadHits}

\* the responses to the four trend queries: no answer, a hit each, and a
\* third response with an item that is no dict
TrendResponses ==
    {[i \in 1..NumTrendQueries |-> ApiError],
     [i \in 1..NumTrendQueries |-> Hits(<<ItemA>>)],
     [i \in 1..NumTrendQueries |-> IF i = 3 THEN BadHits ELSE Hits(<<ItemA>>)]}

\* the responses to one resource query inside an orchestrator run
ResourceResponses == {ApiError, Hits(<<ItemA>>), Hits(<<ItemB, ItemE>>)}

\* messages of the exception a generator call raises
GenErrors == {<<"q", "u", "o", "t", "a">>}

\* --- research stage
ObjTech == Dict(<< <<K_industry, S_Tech>> >>)
ObjBadOfferings == Dict(<< <<K_industry, S_Tech>>, <<K_offerings, List(<<Num(1)>>)>> >>)
ObjNumIndustry == Dict(<< <<K_industry, Num(5)>> >>)
ObjListIndustry == Dict(<< <<K_industry, List(<<Str(ErrorWord)>>)>> >>)
ObjLowerError == Dict(<< <<K_industry, Str(<<"e", "r", "r", "o", "r">>)>> >>)
ObjIOErrors == Dict(<< <<K_industry, Str(<<"I", "O", "E", "r", "r", "o", "r", "s">>)>> >>)
ObjNA == Dict(<< <<K_industry, NA>>, <<K_segment, S_A>> >>)
ObjNull == Dict(<< <<K_industry, None>> >>)
ObjOverride == Dict(<< <<K_industry, S_Tech>>, <<K_input_name, S_B>> >>)
PairsTech == List(<< List(<<K_industry, S_Tech>>) >>)
ObjFull == Dict(<< <<K_industry, S_Tech>>, <<K_offerings, List(<<S_A>>)>>,
                   <<K_strategic_focus, List(<<S_B>>)>> >>)

ResearchObjects ==
    {ObjTech, ObjBadOfferings, ObjNumIndustry, ObjListIndustry, ObjLowerError, ObjIOErrors,
     ObjNA, ObjNull, ObjOverride, ObjFull, Dict(<<>>)}

\* JSON values that are no object
NonObjects == {PairsTech, List(<<>>), List(<<Num(1)>>), Num(5), Str(<<>>), Bool(TRUE)}

Garbage == <<"o", "o", "p", "s", " ", "{">>

\* texts with whitespace that str.strip() removes and json.loads rejects, and
\* with a control character inside a string
SpacedTech == <<"U+000B">> \o Serialize(ObjTech) \o <<FF>>
FencedSpacedTech ==
    FenceOpen \o <<"U+00A0">> \o Serialize(ObjTech) \o <<"U+2028">> \o FenceClose
InnerSpaceTech == <<"{", "U+000B">> \o Serialize(K_industry) \o <<":", " ">>
    \o Serialize(S_Tech) \o <<"}">>
ControlInString ==
    <<"{">> \o Serialize(K_industry) \o <<":", " ", QUOTE, "T", "U+0001", QUOTE, "}">>

ResearchTexts ==
    {Serialize(v) : v \in ResearchObjects \cup NonObjects}
    \cup {Fenced(Serialize(v)) : v \in {ObjTech, ObjNA, PairsTech}}
    \cup {InProse(Serialize(ObjTech)), <<" ">> \o Serialize(ObjTech) \o <<NL>>, Garbage}
    \cup {SpacedTech, FencedSpacedTech, InnerSpaceTech, ControlInString}

ResearchGens == {GenRaise(m) : m \in GenErrors} \cup {GenText(s) : s \in ResearchTexts}

\* --- use case stage
UcA == Dict(<< <<K_title, S_A>> >>)
UcA2 == Dict(<< <<K_title, S_A>>, <<K_description, S_d>> >>)
UcNoTitle == Dict(<< <<K_description, S_d>> >>)
UcNullTitle == Dict(<< <<K_title, None>> >>)
UcListTitle == Dict(<< <<K_title, List(<<S_A>>)>> >>)

UseCaseArrays ==
    {List(<<>>), List(<<UcA>>), List(<<UcNoTitle>>), List(<<UcA, UcA2>>),
     List(<<UcNoTitle, UcA>>), List(<<UcNullTitle>>), List(<<Num(1)>>),
     List(<<UcA, Num(1)>>), List(<<UcListTitle>>), List(<<UcNoTitle, UcA, UcA2>>)}

\* two use cases whose titles 1 and 1e0 are equal numbers of different types
UcOne == Dict(<< <<K_title, Num(1)>> >>)
UcOneFloat == Dict(<< <<K_title, Float(1, 0)>> >>)
EqualNumberTitles ==
    <<"[">> \o Serialize(UcOne) \o <<",", " ", "{">> \o Serialize(K_title)
    \o <<":", " ", "1", "e", "0", "}", "]">>

\* an object with an array of use cases inside
ObjWithArray == Dict(<< <<S_A, List(<<UcA>>)>> >>)

\* JSON values that are no array
NonArrays == {UcA, ObjWithArray, Num(5), Str(<<"[", "]">>), None}

UseCaseTexts ==
    {Serialize(v) : v \in UseCaseArrays \cup NonArrays}
    \cup {Fenced(Serialize(v)) : v \in {List(<<UcA>>), List(<<>>), UcA, ObjWithArray}}
    \cup {InProse(Serialize(v)) : v \in {List(<<UcA>>), UcA, ObjWithArray}}
    \cup {Garbage, <<"[", "1", ",">>, <<"]", " ", "[">>, EqualNumberTitles}

UseCaseGens == {GenRaise(m) : m \in GenErrors} \cup {GenText(s) : s \in UseCaseTexts}

\* --- suggestion stage
SugA == Dict(<< <<K_title, S_A>>, <<K_fit_area, S_B>> >>)

SuggestionArrays == {List(<<>>), List(<<SugA>>), List(<<Num(0)>>)}

SuggestionTexts ==
    {Serialize(v) : v \in SuggestionArrays \cup {SugA}}
    \cup {Fenced(Serialize(v)) : v \in {List(<<SugA>>), List(<<>>), ObjWithArray}}
    \cup {InProse(Serialize(List(<<SugA>>))), Garbage}

SuggestionGens == {GenRaise(m) : m \in GenErrors} \cup {GenText(s) : s \in SuggestionTexts}

(***************************************************************************)
(* The orchestrator as a state machine.  pc is the position in             *)
(* orchestrator: before research_agent ("start"), at the test of line 418  *)
(* ("gate"), before each later agent, and "done" after the return or the   *)
(* escape of an exception.                                                 *)
(***************************************************************************)
VARIABLES
    pc,
    company_or_industry_name,
    research_output,      \* locals of orchestrator
    use_cases,
    resource_links,
    genai_suggestions,
    result,               \* the returned bundle, NoResult before the return
    raised,               \* an exception left the function being run
    stages,               \* the agents invoked so far, in order
    nsearch,              \* search calls made, per agent
    ngen,                 \* generator calls made, per agent
    last_gen,             \* the generator outcome inside the agent that ran last
    last_resps            \* the search responses the agent that ran last received
                          \* for the queries whose results it reads (the results
                          \* of the trend queries only reach the prompt)

vars == <<pc, company_or_industry_name, research_output, use_cases, resource_links,
          genai_suggestions, result, raised, stages, nsearch, ngen, last_gen, last_resps>>

Unset == [t |-> "unset", v |-> 0]
NoResult == [status |-> "none", use_cases |-> Unset, resource_links |-> Unset,
             genai_suggestions |-> Unset, research_data |-> Unset]

StageNames == {"Research", "UseCases", "Resources", "Suggestions"}
NoCalls == [s \in StageNames |-> 0]

Init ==
    /\ pc = "start"
    /\ company_or_industry_name \in Names
    /\ research_output = Unset
    /\ use_cases = Unset
    /\ resource_links = Unset
    /\ genai_suggestions = Unset
    /\ result = NoResult
    /\ raised = FALSE
    /\ stages = <<>>
    /\ nsearch = NoCalls
    /\ ngen = NoCalls
    /\ last_gen = NoGen
    /\ last_resps = <<>>

\* line 416: research_output = research_agent(...); when the call raises
\* nothing is assigned and the exception leaves orchestrator
Research ==
    /\ pc = "start"
    /\ \E resps \in [1..NumResearchQueries -> ResearchResponses], gen \in ResearchGens :
         \E r \in {research_agent(company_or_industry_name, resps, gen)} :
            /\ research_output' = IF r.raised THEN research_output ELSE r.ret
            /\ nsearch' = [nsearch EXCEPT !["Research"] = r.nsearch]
            /\ ngen' = [ngen EXCEPT !["Research"] = r.ngen]
            /\ last_gen' = IF r.ngen = 0 THEN NoGen ELSE gen
            /\ last_resps' = SubSeq(resps, 1, r.nsearch)
            /\ raised' = r.raised
            /\ pc' = IF r.raised THEN "done" ELSE "gate"
    /\ stages' = Append(stages, "Research")
    /\ UNCHANGED <<company_or_industry_name, use_cases, resource_links, genai_suggestions,
                   result>>

\* lines 418-426
FailedBundle(research_data) ==
    [status |-> "Failed Research", use_cases |-> List(<<>>), resource_links |-> Dict(<<>>),
     genai_suggestions |-> List(<<>>), research_data |-> research_data]

GateFailed ==
    /\ pc = "gate"
    /\ Gate(research_output) = "skip"
    /\ result' = FailedBundle(research_output)
    /\ pc' = "done"
    /\ UNCHANGED <<company_or_industry_name, research_output, use_cases, resource_links,
                   genai_suggestions, raised, stages, nsearch, ngen, last_gen, last_resps>>

\* line 418 raising TypeError: "Error" in a value that is no container
GateRaised ==
    /\ pc = "gate"
    /\ Gate(research_output) = "raise"
    /\ raised' = TRUE
    /\ pc' = "done"
    /\ UNCHANGED <<company_or_industry_name, research_output, use_cases, resource_links,
                   genai_suggestions, result, stages, nsearch, ngen, last_gen, last_resps>>

GatePassed ==
    /\ pc = "gate"
    /\ Gate(research_output) = "pass"
    /\ pc' = "usecases"
    /\ UNCHANGED <<company_or_industry_name, research_output, use_cases, resource_links,
                   genai_suggestions, result, raised, stages, nsearch, ngen, last_gen,
                   last_resps>>

\* line 429
UseCases ==
    /\ pc = "usecases"
    /\ \E resps \in TrendResponses, gen \in UseCaseGens :
         \E r \in {use_case_generation_agent(research_output, resps, gen)} :
            /\ raised' = r.raised
            /\ use_cases' = IF r.raised THEN use_cases ELSE r.ret
            /\ nsearch' = [nsearch EXCEPT !["UseCases"] = r.nsearch]
            /\ ngen' = [ngen EXCEPT !["UseCases"] = r.ngen]
            /\ last_gen' = IF r.ngen = 0 THEN NoGen ELSE gen
            /\ last_resps' = SubSeq(resps, 1, r.nsearch)
            /\ pc' = IF r.raised THEN "done" ELSE "resources"
    /\ stages' = Append(stages, "UseCases")
    /\ UNCHANGED <<company_or_industry_name, research_output, resource_links,
                   genai_suggestions, result>>

\* line 432
Resources ==
    /\ pc = "resources"
    /\ \E resps \in [1..Len(use_cases.v) -> ResourceResponses \X ResourceResponses] :
         \E r \in {resource_collection_agent(use_cases, resps)} :
            /\ raised' = r.raised
            /\ resource_links' = IF r.raised THEN resource_links ELSE r.ret
            /\ nsearch' = [nsearch EXCEPT !["Resources"] = r.nsearch]
            /\ last_resps' = SubSeq(resps, 1, (r.nsearch + 1) \div QueriesPerUseCase)
            /\ pc' = IF r.raised THEN "done" ELSE "suggestions"
    /\ stages' = Append(stages, "Resources")
    /\ last_gen' = NoGen
    /\ UNCHANGED <<company_or_industry_name, research_output, use_cases,
                   genai_suggestions, result, ngen>>

\* lines 439-445
SuccessBundle(research_data, ucs, links, suggestions) ==
    [status |-> "Success", use_cases |-> ucs, resource_links |-> links,
     genai_suggestions |-> suggestions, research_data |-> research_data]

\* lines 435-445
Suggestions ==
    /\ pc = "suggestions"
    /\ \E gen \in SuggestionGens :
         \E r \in {optional_genai_proposer_agent(research_output, gen)} :
            /\ raised' = r.raised
            /\ genai_suggestions' = IF r.raised THEN genai_suggestions ELSE r.ret
            /\ ngen' = [ngen EXCEPT !["Suggestions"] = r.ngen]
            /\ last_gen' = IF r.ngen = 0 THEN NoGen ELSE gen
            /\ result' = IF r.raised THEN result
                         ELSE SuccessBundle(research_output, use_cases, resource_links, r.ret)
    /\ stages' = Append(stages, "Suggestions")
    /\ last_resps' = <<>>
    /\ pc' = "done"
    /\ UNCHANGED <<company_or_industry_name, research_output, use_cases, resource_links,
                   nsearch>>

Next == Research \/ GateFailed \/ GateRaised \/ GatePassed \/ UseCases \/ Resources
        \/ Suggestions

Spec == Init /\ [][Next]_vars

(***************************************************************************)
(* The agents called on their own, as the functions they are: the use-case *)
(* agent and the proposer on every profile research_agent returns, the     *)
(* resource agent on lists of use cases.                                   *)
(***************************************************************************)
\* the longest list of use cases handed to the resource agent
MaxUseCases == 2

NoHits == [i \in 1..NumResearchQueries |-> ApiError]
OneHit == [i \in 1..NumResearchQueries |-> IF i = 1 THEN Hits(<<ItemA>>) ELSE NoItemsKey]

\* what research_agent returns: None, or a profile
AgentProfiles ==
    {research_agent(n, resps, gen).ret :
        n \in Names, resps \in {NoHits, OneHit}, gen \in ResearchGens}

AgentUseCases == {UcA, UcNoTitle}

AgentUseCaseLists ==
    UNION {{List(ucs) : ucs \in [1..n -> AgentUseCases]} : n \in 0..MaxUseCases}

\* the responses to one resource query
AgentResponses ==
    {ApiError, Hits(<<ItemA>>), Hits(<<ItemA, ItemB>>), Hits(<<ItemB, ItemE>>),
     Hits(<<ItemC, ItemD>>), BadHits}


InitAgents ==
    /\ \/ pc = "agent" /\ research_output \in AgentProfiles /\ use_cases = Unset
       \/ pc = "resource_agent" /\ research_output = Unset
          /\ use_cases \in AgentUseCaseLists
    /\ company_or_industry_name \in Names
    /\ resource_links = Unset
    /\ genai_suggestions = Unset
    /\ result = NoResult
    /\ raised = FALSE
    /\ stages = <<>>
    /\ nsearch = NoCalls
    /\ ngen = NoCalls
    /\ last_gen = NoGen
    /\ last_resps = <<>>

\* use_case_generation_agent(research_output, ...)
AgentUseCase ==
    /\ pc = "agent"
    /\ \E resps \in TrendResponses, gen \in UseCaseGens :
         \E r \in {use_case_generation_agent(research_output, resps, gen)} :
            /\ raised' = r.raised
            /\ use_cases' = IF r.raised THEN use_cases ELSE r.ret
            /\ nsearch' = [nsearch EXCEPT !["UseCases"] = r.nsearch]
            /\ ngen' = [ngen EXCEPT !["UseCases"] = r.ngen]
            /\ last_gen' = IF r.ngen = 0 THEN NoGen ELSE gen
            /\ last_resps' = SubSeq(resps, 1, r.nsearch)
    /\ stages' = Append(stages, "UseCases")
    /\ pc' = "done"
    /\ UNCHANGED <<company_or_industry_name, research_output, resource_links,
                   genai_suggestions, result>>

\* optional_genai_proposer_agent(research_output, ...)
AgentProposer ==
    /\ pc = "agent"
    /\ \E gen \in SuggestionGens :
         \E r \in {optional_genai_proposer_agent(research_output, gen)} :
            /\ raised' = r.raised
            /\ genai_suggestions' = IF r.raised THEN genai_suggestions ELSE r.ret
            /\ ngen' = [ngen EXCEPT !["Suggestions"] = r.ngen]
            /\ last_gen' = IF r.ngen = 0 THEN NoGen ELSE gen
    /\ stages' = Append(stages, "Suggestions")
    /\ pc' = "done"
    /\ UNCHANGED <<company_or_industry_name, research_output, use_cases, resource_links,
                   result, nsearch, last_resps>>

\* resource_collection_agent(use_cases, ...)
AgentResources ==
    /\ pc = "resource_agent"
    /\ \E resps \in [1..Len(use_cases.v) -> AgentResponses \X AgentResponses] :
         \E r \in {resource_collection_agent(use_cases, resps)} :
            /\ raised' = r.raised
            /\ resource_links' = IF r.raised THEN resource_links ELSE r.ret
            /\ nsearch' = [nsearch EXCEPT !["Resources"] = r.nsearch]
            /\ last_resps' = SubSeq(resps, 1, (r.nsearch + 1) \div QueriesPerUseCase)
    /\ stages' = Append(stages, "Resources")
    /\ pc' = "done"
    /\ UNCHANGED <<company_or_industry_name, research_output, use_cases,
                   genai_suggestions, result, ngen, last_gen>>

NextAgents == AgentUseCase \/ AgentProposer \/ AgentResources

SpecAgents == InitAgents /\ [][NextAgents]_vars

(***************************************************************************)
(* The button handler of the page (lines 452-549): the test of the input,  *)
(* orchestrator, then the display of the returned bundle, which ends at    *)
(* pc = "rendered" with raised telling whether an exception left it.  The  *)
(* calls of st.* themselves do not raise.                                  *)
(***************************************************************************)
\* what st.text_input returns
InputNames == Names \cup {Str(<<>>)}

InitUI ==
    /\ pc = "start"
    /\ company_or_industry_name \in InputNames
    /\ research_output = Unset
    /\ use_cases = Unset
    /\ resource_links = Unset
    /\ genai_suggestions = Unset
    /\ result = NoResult
    /\ raised = FALSE
    /\ stages = <<>>
    /\ nsearch = NoCalls
    /\ ngen = NoCalls
    /\ last_gen = NoGen
    /\ last_resps = <<>>

\* lines 453-454: an empty input gets a warning and orchestrator is not called
EmptyInput ==
    /\ pc = "start"
    /\ ~Truthy(company_or_industry_name)
    /\ pc' = "warned"
    /\ UNCHANGED <<company_or_industry_name, research_output, use_cases, resource_links,
                   genai_suggestions, result, raised, stages, nsearch, ngen, last_gen,
                   last_resps>>

\* lines 455-458: orchestrator is called with the input
ResearchUI == Truthy(company_or_industry_name) /\ Research

\* line 470 / 471 / 479 / 480: ', '.join([item for item in
\*     research_data.get(key, ['N/A']) if isinstance(item, str)])
ListLineRaises(research_data, key) == NotIterable(get(research_data, key, List(<<NA>>)))

\* lines 467-471: results['research_data'].get raises AttributeError on None
FailureBranchRaises(research_data) ==
    \/ research_data = None
    \/ ListLineRaises(research_data, K_offerings)
    \/ ListLineRaises(research_data, K_strategic_focus)

\* lines 463-471
RenderFailure ==
    /\ pc = "done"
    /\ ~raised
    /\ result.status = "Failed Research"
    /\ raised' = FailureBranchRaises(result.research_data)
    /\ pc' = "rendered"
    /\ UNCHANGED <<company_or_industry_name, research_output, use_cases, resource_links,
                   genai_suggestions, result, stages, nsearch, ngen, last_gen, last_resps>>

\* lines 484-490, 530-535 and 506-507: if value: for ... in value: x.get(...)
DisplayLoopRaises(value) == Truthy(value) /\ ItemLoopRaises(value)

\* line 495: research_data.get('input_name', 'resources').replace(...) raises
\* AttributeError on a value that is no str
FileNameRaises(research_data) ==
    HasKey(research_data, K_input_name) /\ ~IsStr(get(research_data, K_input_name, None))

\* lines 499-513: the loop over resource_links.items() and over each list
LinksDisplayRaises(links) ==
    /\ Truthy(links)
    /\ \/ ~IsDict(links)
       \/ \E p \in 1..Len(links.v) : DisplayLoopRaises(links.v[p][2])

\* lines 473-546; the resources are displayed only under a non-empty use_cases
SuccessBranchRaises(results) ==
    \/ results.research_data = None
    \/ ListLineRaises(results.research_data, K_offerings)
    \/ ListLineRaises(results.research_data, K_strategic_focus)
    \/ DisplayLoopRaises(results.use_cases)
    \/ /\ Truthy(results.use_cases)
       /\ \/ FileNameRaises(results.research_data)
          \/ LinksDisplayRaises(results.resource_links)
    \/ DisplayLoopRaises(results.genai_suggestions)

\* lines 473-546
RenderSuccess ==
    /\ pc = "done"
    /\ ~raised
    /\ result.status = "Success"
    /\ raised' = SuccessBranchRaises(result)
    /\ pc' = "rendered"
    /\ UNCHANGED <<company_or_industry_name, research_output, use_cases, resource_links,
                   genai_suggestions, result, stages, nsearch, ngen, last_gen, last_resps>>

NextUI ==
    \/ EmptyInput \/ ResearchUI \/ GateFailed \/ GateRaised \/ GatePassed \/ UseCases
    \/ Resources \/ Suggestions \/ RenderFailure \/ RenderSuccess

SpecUI == InitUI /\ [][NextUI]_vars

(***************************************************************************)
(* Properties.  The terms the statements use, then one formula for each    *)
(* statement, with a reachable state in which its case occurs.             *)
(***************************************************************************)
AllStages == <<"Research", "UseCases", "Resources", "Suggestions">>

\* the agent that ran last
LastStage == stages[Len(stages)]

\* the industry of a profile
IndustryOf(p) == get(p, K_industry, None)

\* "its industry contains the case-sensitive substring Error"
HasErrorSubstring(x) == IsStr(x) /\ HasSubstring(ErrorWord, x.v)

\* "its industry contains Error", read as Python reads `"Error" in x`: a
\* substring of a string, an element of a list, a key of an object; no
\* other value contains anything
HoldsError(x) ==
    \/ IsStr(x) /\ HasSubstring(ErrorWord, x.v)
    \/ IsList(x) /\ \E i \in 1..Len(x.v) : x.v[i] = Str(ErrorWord)
    \/ IsDict(x) /\ \E i \in 1..Len(x.v) : x.v[i][1] = Str(ErrorWord)

\* research failed, as stated: a null profile, an industry that is null or
\* "N/A", or an industry that contains "Error"
ResearchFailedAsStated(p) ==
    \/ p = None
    \/ p # None /\ (IndustryOf(p) \in {None, NA} \/ HoldsError(IndustryOf(p)))

\* the outcomes of a search the statements speak of: the search failed, or
\* it returned a list of objects (each with or without its fields)
OutcomeAsStated(resp) ==
    /\ IsList(perform_GoogleSearch(resp))
    /\ \A k \in 1..Len(perform_GoogleSearch(resp).v) :
          IsDict(perform_GoogleSearch(resp).v[k])

\* every search the agent that ran last made had such an outcome
\* (resource_collection_agent receives its responses in pairs, the others
\* one by one)
SearchesAsStated ==
    stages # <<>> =>
        \A i \in 1..Len(last_resps) :
            IF LastStage = "Resources"
            THEN OutcomeAsStated(last_resps[i][1]) /\ OutcomeAsStated(last_resps[i][2])
            ELSE OutcomeAsStated(last_resps[i])

\* no search and no generator call was made by the agents in S
NoCallsBy(S) == \A s \in S : nsearch[s] = 0 /\ ngen[s] = 0

\* C1: orchestrator never raises: whatever the generator did, and whether
\* the searches failed or returned objects with or without their fields, a
\* finished run has returned a bundle whose status is "Success" or
\* "Failed Research".
C1_NeverRaises ==
    pc = "done" /\ SearchesAsStated =>
        ~raised /\ result.status \in {"Success", "Failed Research"}

\* C2: once research_agent has returned, orchestrator returns status
\* "Failed Research" exactly when the research profile is null, or its
\* industry is null or "N/A", or its industry contains "Error"; the bundle
\* then has empty use_cases, resource_links and genai_suggestions, and no
\* agent ran and no search or generator call was made after the research
\* stage.
C2_FailedResearchExactlyWhen ==
    pc = "done" /\ research_output # Unset =>
        /\ (result.status = "Failed Research") <=> ResearchFailedAsStated(research_output)
        /\ result.status = "Failed Research" =>
              /\ result.use_cases = List(<<>>)
              /\ result.resource_links = Dict(<<>>)
              /\ result.genai_suggestions = List(<<>>)
              /\ stages = <<"Research">>
              /\ NoCallsBy(StageNames \ {"Research"})

\* an industry with "Error" inside it, not at its start, fails the research
C2_Witness ==
    /\ pc = "done"
    /\ ~raised
    /\ stages = <<"Research">>
    /\ IsDict(research_output)
    /\ IsStr(IndustryOf(research_output))
    /\ HoldsError(IndustryOf(research_output))
    /\ ~startswith(IndustryOf(research_output).v, ErrorWord)
    /\ result.status = "Failed Research"
    /\ result.research_data = research_output

\* C3: once research_agent has returned a profile that passes the gate,
\* the run ends with the four stages run once each, in order, and with
\* status "Success": nothing that happens inside a later stage, whose
\* searches fail or return objects, aborts the run.
C3_PassedGateEndsInSuccess ==
    /\ pc = "done"
    /\ research_output # Unset
    /\ Gate(research_output) = "pass"
    /\ SearchesAsStated
    =>
        /\ stages = AllStages
        /\ ~raised
        /\ result.status = "Success"

\* every research query came back without a result
NoSearchHit ==
    /\ Len(last_resps) = NumResearchQueries
    /\ \A i \in 1..Len(last_resps) : perform_GoogleSearch(last_resps[i]) = List(<<>>)

\* C4: when all 4 research queries return zero results, research_agent
\* returns null without calling the generator, and orchestrator returns
\* status "Failed Research" with empty use_cases, resource_links and
\* genai_suggestions.
C4_NoHitsFailsResearch ==
    stages = <<"Research">> /\ NoSearchHit =>
        /\ research_output = None
        /\ nsearch["Research"] = NumResearchQueries
        /\ ngen["Research"] = 0
        /\ last_gen = NoGen
        /\ ~raised
        /\ pc \in {"gate", "done"}
        /\ pc = "done" =>
              /\ result.status = "Failed Research"
              /\ result.use_cases = List(<<>>)
              /\ result.resource_links = Dict(<<>>)
              /\ result.genai_suggestions = List(<<>>)

C4_Witness ==
    /\ pc = "done"
    /\ stages = <<"Research">>
    /\ NoSearchHit
    /\ \E i, j \in 1..Len(last_resps) : last_resps[i] = ApiError /\ last_resps[j] = NoItemsKey
    /\ result.status = "Failed Research"
    /\ result.research_data = None

\* C5: in a run of orchestrator, whenever optional_genai_proposer_agent is
\* called (line 435) with a profile that passes the precondition gate, it
\* returns a list of at least one suggestion, whatever the generator does;
\* when the generator's outcome yields no suggestion, the list is exactly
\* the one fallback suggestion.
C5_ProposerNeverEmpty ==
    stages = AllStages /\ Gate(research_output) = "pass" =>
        /\ ~raised
        /\ IsList(genai_suggestions)
        /\ Len(genai_suggestions.v) >= 1
        /\ ExtractArray(last_gen) = List(<<>>)
              => genai_suggestions = List(<<FallbackSuggestion>>)

\* the generator raised inside the proposer and the run still succeeded
\* with the fallback suggestion
C5_Witness ==
    /\ pc = "done"
    /\ stages = AllStages
    /\ ~raised
    /\ last_gen.raise
    /\ genai_suggestions = List(<<FallbackSuggestion>>)
    /\ result.status = "Success"
    /\ result.genai_suggestions = genai_suggestions

\* the profiles C6 speaks of: null, industry "N/A", or an industry that
\* contains the substring "Error"
SkippedAsStated(p) ==
    \/ p = None
    \/ p # None /\ (IndustryOf(p) = NA \/ HasErrorSubstring(IndustryOf(p)))

\* C6: given a null profile, or one whose industry is "N/A" or contains the
\* substring "Error", use_case_generation_agent and
\* optional_genai_proposer_agent return an empty list, no search and no
\* generator call is made, and no fallback suggestion is substituted.
C6_GatedAgentsReturnEmpty ==
    /\ stages \in {<<"UseCases">>, <<"Suggestions">>}
    /\ SkippedAsStated(research_output)
    =>  /\ ~raised
        /\ stages = <<"UseCases">> => use_cases = List(<<>>)
        /\ stages = <<"Suggestions">> => genai_suggestions = List(<<>>)
        /\ NoCallsBy(StageNames)
        /\ last_gen = NoGen

C6_Witness ==
    /\ stages = <<"Suggestions">>
    /\ research_output # None
    /\ IsStr(IndustryOf(research_output))
    /\ startswith(IndustryOf(research_output).v, ErrorPrefix)
    /\ genai_suggestions = List(<<>>)
    /\ ngen["Suggestions"] = 0

\* the title under which the resource agent files a use case
TitleOf(uc) == get(uc, K_title, UntitledUseCase)

\* the last use case that carries title t: the map holds the list made for it
LastWithTitle(t) ==
    CHOOSE i \in 1..Len(use_cases.v) :
        /\ PyEq(TitleOf(use_cases.v[i]), t)
        /\ \A j \in (i + 1)..Len(use_cases.v) : ~PyEq(TitleOf(use_cases.v[j]), t)

\* the items the two queries of use case i returned, in the order seen
ItemsSeen(i) ==
    perform_GoogleSearch(last_resps[i][1]).v \o perform_GoogleSearch(last_resps[i][2]).v

LinkOf(x) == get(x, K_link, None)

\* the first of the items that has link l
FirstWithLink(items, l) ==
    items[CHOOSE k \in 1..Len(items) :
            LinkOf(items[k]) = l /\ \A j \in 1..(k - 1) : LinkOf(items[j]) # l]

\* the list the map holds for one title: distinct non-empty links, each link
\* seen entered once with the title and the snippet of the first item that
\* had it, and nothing else
Deduplicated(list, items) ==
    /\ \A a, b \in 1..Len(list) : a # b => LinkOf(list[a]) # LinkOf(list[b])
    /\ \A a \in 1..Len(list) :
          /\ IsStr(LinkOf(list[a])) /\ LinkOf(list[a]).v # <<>>
          /\ \E k \in 1..Len(items) : LinkOf(items[k]) = LinkOf(list[a])
    /\ \A k \in 1..Len(items) :
          LinkOf(items[k]) \notin {None, Str(<<>>)} =>
             \E a \in 1..Len(list) :
                /\ LinkOf(list[a]) = LinkOf(items[k])
                /\ get(list[a], K_title, None)
                     = get(FirstWithLink(items, LinkOf(items[k])), K_title, NoTitle)
                /\ get(list[a], K_snippet, None)
                     = get(FirstWithLink(items, LinkOf(items[k])), K_snippet, NA)

\* C7: in the map resource_collection_agent returns, the list of every use
\* case has pairwise distinct, non-empty links; a link that several items of
\* the use case's two queries share is entered exactly once, with the title
\* and the snippet of the first item seen.
C7_LinksDeduplicated ==
    stages = <<"Resources">> /\ ~raised =>
        /\ IsDict(resource_links)
        /\ \A p \in 1..Len(resource_links.v) :
              Deduplicated(resource_links.v[p][2].v,
                           ItemsSeen(LastWithTitle(resource_links.v[p][1])))

C7_Witness ==
    /\ stages = <<"Resources">>
    /\ use_cases = List(<<UcA>>)
    /\ last_resps = << <<Hits(<<ItemA, ItemB>>), Hits(<<ItemB, ItemE>>)>> >>
    /\ resource_links =
          Dict(<< <<S_A, List(<<
              Dict(<< <<K_title, Str(<<"T", "1">>)>>, <<K_link, Str(<<"L", "1">>)>>,
                      <<K_snippet, Str(<<"S", "1">>)>> >>),
              Dict(<< <<K_title, NoTitle>>, <<K_link, Str(<<"L", "2">>)>>,
                      <<K_snippet, NA>> >>) >>)>> >>)

KeysOf(d) == {d.v[i][1] : i \in 1..Len(d.v)}

\* C8: in every bundle with status "Success" the keys of resource_links are
\* the titles of the use cases of use_cases, a use case without a title
\* counting under "Untitled Use Case" and a repeated title once; the map is
\* empty when use_cases is.
C8_KeysAreTitles ==
    result.status = "Success" =>
        /\ IsList(result.use_cases)
        /\ IsDict(result.resource_links)
        /\ \A k \in KeysOf(result.resource_links) :
              \E i \in 1..Len(result.use_cases.v) : PyEq(TitleOf(result.use_cases.v[i]), k)
        /\ \A i \in 1..Len(result.use_cases.v) :
              \E k \in KeysOf(result.resource_links) : PyEq(TitleOf(result.use_cases.v[i]), k)
        /\ \A p, q \in 1..Len(result.resource_links.v) :
              p # q => ~PyEq(result.resource_links.v[p][1], result.resource_links.v[q][1])
        /\ result.use_cases = List(<<>>) => result.resource_links = Dict(<<>>)

C8_Witness ==
    /\ result.status = "Success"
    /\ result.use_cases = List(<<UcNoTitle, UcA, UcA2>>)
    /\ KeysOf(result.resource_links) = {UntitledUseCase, S_A}
    /\ Len(result.resource_links.v) = 2

\* the JSON values the generator's texts serialize
JsonValues ==
    ResearchObjects \cup NonObjects \cup UseCaseArrays \cup NonArrays
    \cup SuggestionArrays \cup {SugA}

\* the generator returned exactly the serialization of V
ReturnedPure(V) == last_gen = GenText(Serialize(V))

\* the generator returned the serialization of V inside a fence
ReturnedFenced(V) == last_gen = GenText(Fenced(Serialize(V)))

\* the profile holds every member of the object V (research_agent turns a
\* null industry into "N/A" before it returns)
ProfileHolds(V) ==
    /\ IsDict(V)
    /\ research_output # None
    /\ \A i \in 1..Len(V.v) :
          get(research_output, V.v[i][1], Unset)
            = IF V.v[i][1] = K_industry /\ V.v[i][2] = None THEN NA ELSE V.v[i][2]

\* C9 as stated: whatever JSON value V the generator's text is the exact
\* serialization of, the agent that asked uses V as its result.
C9_RoundTripAnyValue ==
    stages # <<>> =>
        \A V \in JsonValues :
            ReturnedPure(V) =>
                /\ LastStage = "Research" => ProfileHolds(V)
                /\ LastStage = "UseCases" => use_cases = V
                /\ LastStage = "Suggestions" => genai_suggestions = V

\* C9, amended: the round trip holds for a value of the shape the agent
\* asks for.  research_agent merges a JSON object V into the profile;
\* use_case_generation_agent returns a JSON array V;
\* optional_genai_proposer_agent returns a non-empty JSON array V.  A value
\* that is no array is dropped by the two array agents (the result is the
\* empty list, and for the proposer the fallback suggestion, which also
\* replaces an empty array).
C9_RoundTripExpectedShape ==
    stages # <<>> =>
        \A V \in JsonValues :
            ReturnedPure(V) =>
                /\ LastStage = "Research" /\ IsDict(V) => ProfileHolds(V)
                /\ LastStage = "UseCases" =>
                      use_cases = IF IsList(V) THEN V ELSE List(<<>>)
                /\ LastStage = "Suggestions" =>
                      genai_suggestions
                        = IF IsList(V) /\ V # List(<<>>) THEN V
                          ELSE List(<<FallbackSuggestion>>)

C9_Witness ==
    /\ pc = "resources"
    /\ ReturnedPure(List(<<UcA, UcA2>>))
    /\ use_cases = List(<<UcA, UcA2>>)
    /\ get(research_output, K_input_name, None) = S_B

\* C10: when the generator's text is the serialization of V between a
\* leading fence line and a trailing fence, the extraction yields V: a JSON
\* object V is merged into the profile by research_agent, a JSON array V is
\* what the array extraction of use_case_generation_agent and of
\* optional_genai_proposer_agent yields (the proposer then replaces an empty
\* V by the fallback suggestion, as it does for any empty extraction).
C10_FenceStripped ==
    stages # <<>> =>
        \A V \in JsonValues :
            ReturnedFenced(V) =>
                /\ LastStage = "Research" /\ IsDict(V) => ProfileHolds(V)
                /\ LastStage = "UseCases" /\ IsList(V) => use_cases = V
                /\ LastStage = "Suggestions" /\ IsList(V) =>
                      genai_suggestions
                        = IF V = List(<<>>) THEN List(<<FallbackSuggestion>>) ELSE V

C10_Witness ==
    /\ stages = <<"Research">>
    /\ ReturnedFenced(ObjNA)
    /\ IndustryOf(research_output) = NA
    /\ get(research_output, K_segment, None) = S_A

\* the generator returned the serialization of V wrapped in prose
ReturnedInProse(V) == last_gen = GenText(InProse(Serialize(V)))

\* C11: when the generator's text is a JSON value V of the expected shape
\* wrapped in prose, so that the verbatim and the fence-stripped parse fail,
\* the extraction parses the substring from the first opening bracket to the
\* last closing one and yields V: an array in the array mode of
\* use_case_generation_agent and optional_genai_proposer_agent, an object in
\* research_agent.
C11_SubstringSalvage ==
    stages # <<>> =>
        \A V \in JsonValues :
            ReturnedInProse(V) =>
                /\ LastStage = "Research" /\ IsDict(V) => ProfileHolds(V)
                /\ LastStage = "UseCases" /\ IsList(V) => use_cases = V
                /\ LastStage = "Suggestions" /\ IsList(V) /\ V # List(<<>>)
                      => genai_suggestions = V

\* the generator's text carries V: bare, inside a fence, or wrapped in prose
Carries(V) == ReturnedPure(V) \/ ReturnedFenced(V) \/ ReturnedInProse(V)

\* C12: when the JSON value the generator's text carries (bare, fenced or
\* wrapped in prose) is no array, use_case_generation_agent returns the
\* empty list and optional_genai_proposer_agent treats the extraction as
\* empty (its result is the fallback suggestion); an array nested inside a
\* top-level object is never the result.
C12_NonArrayYieldsEmpty ==
    stages # <<>> =>
        \A V \in JsonValues :
            ~IsList(V) /\ Carries(V) =>
                /\ LastStage = "UseCases" => use_cases = List(<<>>)
                /\ LastStage = "Suggestions"
                      => genai_suggestions = List(<<FallbackSuggestion>>)

\* the search items research_agent collected from the responses it received
CollectedItems == List(ExtendAll(<<>>, last_resps, 1).hits)

\* the keys research_agent gives the profile
ProfileKeys ==
    {K_input_name, K_industry, K_segment, K_offerings, K_strategic_focus, K_search_results}

\* C13: when research_agent parses a JSON object out of the generator's text
\* (bare or fenced), the merge changes nothing but industry, segment,
\* offerings and strategic_focus: input_name is still the subject name,
\* search_results still the collected search items, and no key is added,
\* whatever keys the object has.
C13_MergeKeepsNameAndResults ==
    stages = <<"Research">> =>
        \A V \in JsonValues :
            IsDict(V) /\ (ReturnedPure(V) \/ ReturnedFenced(V)) =>
                /\ get(research_output, K_input_name, None) = company_or_industry_name
                /\ get(research_output, K_search_results, None) = CollectedItems
                /\ KeysOf(research_output) = ProfileKeys

\* neither the verbatim text nor the text cleaned of its fences is JSON
Unparseable(text) ==
    /\ ~json_loads(strip(text)).ok
    /\ ~json_loads(CleanFences(strip(text))).ok

\* the four fields carry one marker string that contains "Error", the two
\* list fields inside a one-element list
FourFieldsMarked(p) ==
    /\ HasErrorSubstring(IndustryOf(p))
    /\ get(p, K_segment, None) = IndustryOf(p)
    /\ get(p, K_offerings, None) = List(<<IndustryOf(p)>>)
    /\ get(p, K_strategic_focus, None) = List(<<IndustryOf(p)>>)

\* C14: in every profile research_agent returns, industry is not null: it
\* is "N/A" when the merged object did not set it; when the generator
\* raised or its text could not be parsed, industry, segment, offerings and
\* strategic_focus carry a marker string that contains "Error" (inside a
\* one-element list for the two list fields), the gate does not pass, and
\* orchestrator returns "Failed Research".
C14_IndustryNeverNull ==
    stages # <<>> /\ research_output # Unset /\ research_output # None =>
        /\ IndustryOf(research_output) # None
        /\ stages = <<"Research">> =>
              /\ \A V \in JsonValues :
                    /\ IsDict(V) /\ ~HasKey(V, K_industry)
                    /\ ReturnedPure(V) \/ ReturnedFenced(V)
                    => IndustryOf(research_output) = NA
              /\ last_gen.raise \/ Unparseable(last_gen.text) =>
                    /\ FourFieldsMarked(research_output)
                    /\ Gate(research_output) = "skip"
                    /\ pc \in {"gate", "done"}
                    /\ pc = "done" => ~raised /\ result.status = "Failed Research"

C14_Witness ==
    /\ pc = "done"
    /\ stages = <<"Research">>
    /\ last_gen = GenText(Garbage)
    /\ IndustryOf(research_output) = ParsingErrorMarker
    /\ get(research_output, K_offerings, None) = List(<<ParsingErrorMarker>>)
    /\ result.status = "Failed Research"

\* C15: every bundle orchestrator returns with status "Failed Research", the
\* one with a null research_data included, is rendered by the failure branch
\* of the page without an exception: reading industry, segment, offerings
\* and strategic_focus from research_data never raises.
C15_FailureBranchNeverRaises ==
    pc = "rendered" /\ result.status = "Failed Research" => ~raised

=============================================================================
